---- MODULE Spec2Model ----
(***************************************************************************)
(* check_dirvish.py: a Nagios plugin that reads a dirvish vault's history  *)
(* file newest-first, parses each backup image's summary file and gathers  *)
(* three metrics (duration, last_try, last_success); plus the formatter     *)
(* that renders a number of seconds as a short human readable string.      *)
(*                                                                         *)
(* Strings are modelled as sequences of one-character strings, so that     *)
(* strip(), split(), join() and casefold() are computed, not assumed.      *)
(***************************************************************************)
EXTENDS Integers, Sequences, FiniteSets, TLC

VARIABLES
    basePath,      \* state of self.base_path on disk: "dir", "noaccess", "file"
    vaultPath,     \* state of base_path/vault on disk
    histAccess,    \* os.access(history_file, R_OK)
    histfile,      \* the history file: its lines, oldest first, without "\n"
    fs,            \* the backup images on disk: identifier -> image
    pc,            \* position of the check: "init", "call", "loop", "done", "failed"
    error,         \* the exception that left check_backups, or "none"
    pending,       \* identifiers the backups() generator has still to yield
    found,         \* identifiers yielded so far (logged "Found next backup in")
    duration,      \* self.duration
    last_try,      \* self.last_try
    last_success,  \* self.last_success
    now,           \* latest reading of datetime.datetime.now()
    seconds,       \* argument of seconds_human_readable
    string,        \* result of seconds_human_readable
    summary,       \* a summary file: its lines, without "\n"
    parameterL,    \* the parameterL argument of parse_backup
    resultD        \* the dict returned by parse_backup

vars == <<basePath, vaultPath, histAccess, histfile, fs, pc, error, pending,
          found, duration, last_try, last_success, now, seconds, string,
          summary, parameterL, resultD>>

checkVarsRest == <<basePath, vaultPath, histAccess, fs, error, pending,
                   duration, last_try, last_success, now>>
fmtVars == <<seconds, string>>
parseVars == <<summary, parameterL, resultD>>

\* A metric attribute: None, or a number of seconds
None == <<>>
Some(x) == <<x>>
Val(m) == m[1]

----------------------------------------------------------------------------
(* Bounds of the model *)

MaxHist == 2        \* lines of the history file in Spec
ClockStart == 5     \* reading of the clock when the check starts
ClockSpan == 1      \* how far the clock may advance during the check
MaxYears == 1       \* inputs of the formatter: whole years
MaxMonths == 4      \*   whole 30-day months
MaxDays == 1        \*   whole days
MaxHours == 1       \*   whole hours (23 is always included)
MaxMinutes == 1     \*   whole minutes (59 is always included)
MaxScanLines == 2   \* lines of the history file in SpecScan
MaxScanLen == 2     \* characters per history line in SpecScan
MaxSumLen == 6      \* characters of the first summary line in SpecParse

----------------------------------------------------------------------------
(* String helpers: str.strip, str.split, str.join, str.casefold, "%s" % n *)

Whitespace == {" ", "\t", "\n"}

RECURSIVE LStrip(_)
LStrip(s) ==
    IF s # <<>> /\ Head(s) \in Whitespace THEN LStrip(Tail(s)) ELSE s

RECURSIVE RStrip(_)
RStrip(s) ==
    IF s # <<>> /\ s[Len(s)] \in Whitespace
    THEN RStrip(SubSeq(s, 1, Len(s) - 1)) ELSE s

Strip(s) == RStrip(LStrip(s))

\* index of the first occurrence of the separator sep in s, 0 when absent
FindSep(s, sep) ==
    LET hits == { i \in 1..(Len(s) - Len(sep) + 1) :
                    SubSeq(s, i, i + Len(sep) - 1) = sep }
    IN IF hits = {} THEN 0 ELSE CHOOSE i \in hits : \A j \in hits : i <= j

RECURSIVE Split(_, _)
Split(s, sep) ==
    LET i == FindSep(s, sep)
    IN IF i = 0 THEN <<s>>
       ELSE <<SubSeq(s, 1, i - 1)>> \o Split(SubSeq(s, i + Len(sep), Len(s)), sep)

RECURSIVE Join(_, _)
Join(parts, sep) ==
    IF parts = <<>> THEN <<>>
    ELSE IF Len(parts) = 1 THEN parts[1]
    ELSE parts[1] \o sep \o Join(Tail(parts), sep)

UpperCase == <<"A","B","C","D","E","F","G","H","I","J","K","L","M",
               "N","O","P","Q","R","S","T","U","V","W","X","Y","Z">>
LowerCase == <<"a","b","c","d","e","f","g","h","i","j","k","l","m",
               "n","o","p","q","r","s","t","u","v","w","x","y","z">>

CasefoldChar(c) ==
    IF \E i \in 1..26 : UpperCase[i] = c
    THEN LowerCase[CHOOSE i \in 1..26 : UpperCase[i] = c]
    ELSE c

Casefold(s) == [i \in 1..Len(s) |-> CasefoldChar(s[i])]

DigitChars == <<"0", "1", "2", "3", "4", "5", "6", "7", "8", "9">>

\* "%s" % n for a natural number n
RECURSIVE Dec(_)
Dec(n) ==
    IF n < 10 THEN <<DigitChars[n + 1]>>
    ELSE Dec(n \div 10) \o <<DigitChars[(n % 10) + 1]>>

\* "{0:0>2}".format(n)
Pad2(n) == IF n < 10 THEN <<"0">> \o Dec(n) ELSE Dec(n)

----------------------------------------------------------------------------
(* Duration_Fmt_Metric.seconds_human_readable *)

year == 60 * 60 * 24 * 365
month == 60 * 60 * 24 * 30
day == 60 * 60 * 24
hour == 60 * 60
minute == 60

\* mutant: months are shown from the first one on
MonthsSignificantFromOne(months) == months > 0

MonthsSignificant(months) == months > 2

\* the tail of the function, from "hours, seconds = divmod(seconds, hour)"
HoursMinutes(str, secs, remaining_unitcount) ==
    LET hours == secs \div hour
        minutes == (secs % hour) \div minute
    IN IF remaining_unitcount > 1
       THEN str \o Pad2(hours) \o <<"h">> \o Pad2(minutes)
       ELSE str \o Pad2(hours) \o <<"h">>

\* from "days, remain = divmod(seconds, day)"
FromDays(str, secs, remaining_unitcount) ==
    LET days == secs \div day
    IN IF days > 0
       THEN IF remaining_unitcount - 1 <= 0
            THEN str \o Dec(days) \o <<"d">>
            ELSE HoursMinutes(str \o Dec(days) \o <<"d">>, secs % day,
                              remaining_unitcount - 1)
       ELSE HoursMinutes(str, secs, remaining_unitcount)

\* from "months, remain = divmod(seconds, month)"
FromMonths(str, secs, remaining_unitcount) ==
    LET months == secs \div month
    IN IF MonthsSignificant(months)
       THEN IF remaining_unitcount - 1 <= 0
            THEN str \o Dec(months) \o <<"M">>
            ELSE FromDays(str \o Dec(months) \o <<"M">>, secs % month,
                          remaining_unitcount - 1)
       ELSE FromDays(str, secs, remaining_unitcount)

seconds_human_readable(secs) ==
    LET years == secs \div year
    IN IF years > 0
       THEN FromMonths(Dec(years) \o <<"Y">>, secs % year, 1)
       ELSE FromMonths(<<>>, secs, 2)

FmtInputs ==
    { y * year + m * month + d * day + h * hour + mi * minute + s :
        y \in 0..MaxYears, m \in 0..MaxMonths, d \in 0..MaxDays,
        h \in (0..MaxHours) \cup {23}, mi \in (0..MaxMinutes) \cup {59},
        s \in {0, 1, 59} }

----------------------------------------------------------------------------
(* Backup.check_path_accessible *)

PathStates == {"dir", "noaccess", "file"}

\* "noaccess": os.access(directory, R_OK | X_OK) is false (missing, or no
\* permission); "file": accessible but os.path.isdir is false.
check_path_accessible(directory) ==
    IF directory = "noaccess" THEN "PathNotAccessible"
    ELSE IF directory # "dir" THEN "PathNoDir"
    ELSE "ok"

----------------------------------------------------------------------------
(* Backup.backups *)

\* histfile.readlines(): every line keeps its line terminator
ReadLines(file) == [i \in 1..Len(file) |-> file[i] \o <<"\n">>]

Reversed(seq) == [i \in 1..Len(seq) |-> seq[Len(seq) - i + 1]]

\* image['image'] = entry.strip().split('\t')[0]
ImageOf(entry) == Split(Strip(entry), <<"\t">>)[1]

\* mutant: the lines are read in file order, oldest first
BackupsForward(file) ==
    LET lines == ReadLines(file)
    IN [i \in 1..Len(lines) |-> ImageOf(lines[i])]

\* the identifiers the generator yields, in the order it yields them
Backups(file) ==
    LET lines == Reversed(ReadLines(file))
    IN [i \in 1..Len(lines) |-> ImageOf(lines[i])]

\* mutant: the vault path is checked before the base path
BackupsCheckVaultFirst(base, vault, hist) ==
    IF check_path_accessible(vault) # "ok" THEN check_path_accessible(vault)
    ELSE IF check_path_accessible(base) # "ok" THEN check_path_accessible(base)
    ELSE IF ~hist THEN "HistoryFileNotFound"
    ELSE "ok"

\* the checks backups() makes before it reads the history file
BackupsCheck(base, vault, hist) ==
    IF check_path_accessible(base) # "ok" THEN check_path_accessible(base)
    ELSE IF check_path_accessible(vault) # "ok" THEN check_path_accessible(vault)
    ELSE IF ~hist THEN "HistoryFileNotFound"
    ELSE "ok"

----------------------------------------------------------------------------
(* Backup.parse_backup *)

ColonSpace == <<":", " ">>

\* one iteration of "for line in summary.readlines()"
ParseLine(_resultD, line, _parameterL) ==
    LET parts == Split(Strip(line), ColonSpace)
    IN IF Len(parts) >= 2
       THEN LET parameter_casefold == Casefold(parts[1])
                value == Join(Tail(parts), <<" ">>)
            IN IF \E i \in 1..Len(_parameterL) : _parameterL[i] = parameter_casefold
               THEN (parameter_casefold :> value) @@ _resultD
               ELSE _resultD
       ELSE _resultD

RECURSIVE ParseLines(_, _, _)
ParseLines(_resultD, lines, _parameterL) ==
    IF lines = <<>> THEN _resultD
    ELSE ParseLines(ParseLine(_resultD, Head(lines), _parameterL),
                    Tail(lines), _parameterL)

\* the dict built from a readable summary file
ParseSummary(file, params) ==
    ParseLines(<<>>, ReadLines(file),
               [i \in 1..Len(params) |-> Casefold(params[i])])

\* an image on disk: the image directory, its tree, and its summary file
\* parse_backup(backup): the exception raised ("none" if it returns) and
\* the dict returned
parse_backup(image, params) ==
    IF check_path_accessible(image.dir) # "ok"
    THEN [exc |-> check_path_accessible(image.dir), result |-> <<>>]
    ELSE IF check_path_accessible(image.tree) # "ok"
    THEN [exc |-> check_path_accessible(image.tree), result |-> <<>>]
    ELSE IF ~image.readable
    THEN [exc |-> "BackupNotValid", result |-> <<>>]
    ELSE [exc |-> "none", result |-> ParseSummary(image.summary, params)]

----------------------------------------------------------------------------
(* The files on disk *)

K_status == <<"s","t","a","t","u","s">>
K_begin == <<"b","a","c","k","u","p","-","b","e","g","i","n">>
K_complete == <<"b","a","c","k","u","p","-","c","o","m","p","l","e","t","e">>
V_success == <<"s","u","c","c","e","s","s">>

\* the list check_backups passes: ['status', 'backup-begin', 'backup-complete']
Params == <<K_status, K_begin, K_complete>>

\* dirvish writes the keys of a summary capitalised
C_status == <<"S","t","a","t","u","s">>
C_begin == <<"B","a","c","k","u","p","-","b","e","g","i","n">>
C_complete == <<"B","a","c","k","u","p","-","c","o","m","p","l","e","t","e">>

Line(key, value) == key \o ColonSpace \o value

\* a summary of a finished backup: instants are written as decimal numbers
Finished(status, begin, complete) ==
    << <<"c","l","i","e","n","t",":"," ","h">>,
       Line(C_begin, Dec(begin)), Line(C_complete, Dec(complete)),
       Line(C_status, status) >>

Image(dir, tree, readable, file) ==
    [dir |-> dir, tree |-> tree, readable |-> readable, summary |-> file]

Images ==
    { Image("noaccess", "dir", TRUE, <<>>),
      Image("file", "dir", TRUE, <<>>),
      Image("dir", "noaccess", TRUE, <<>>),
      Image("dir", "file", TRUE, <<>>),
      Image("dir", "dir", FALSE, <<>>),
      Image("dir", "dir", TRUE, Finished(V_success, 1, 3)),
      Image("dir", "dir", TRUE, Finished(<<"S","U","C","C","E","S","S">>, 2, 2)),
      Image("dir", "dir", TRUE, Finished(<<"f","a","i","l">>, 3, 4)),
      Image("dir", "dir", TRUE, Finished(V_success, ClockStart, ClockStart)),
      Image("dir", "dir", TRUE, << Line(C_begin, Dec(4)) >>),
      Image("dir", "dir", TRUE,
            << Line(C_complete, Dec(4)), Line(C_status, V_success) >>),
      Image("dir", "dir", TRUE,
            << Line(C_begin, Dec(2)), Line(C_complete, Dec(4)) >>),
      Image("dir", "dir", TRUE, Finished(V_success, 0, 4) \o
            << Line(K_begin, <<"x">>) >>) }

\* the name of the image the i-th line of the history file records
ImageName(i) == <<LowerCase[i]>>

\* a line of default.hist: IMAGE \t CREATED ...
HistLine(i) == ImageName(i) \o <<"\t", "x">>

----------------------------------------------------------------------------
(* Backup.check_backups and Backup.probe *)

\* dateutil.parser.parse: the instant a string denotes, None for ParserError
RECURSIVE DigitsValue(_, _)
DigitsValue(acc, v) ==
    IF v = <<>> THEN acc
    ELSE DigitsValue(10 * acc + ((CHOOSE i \in 1..10 : DigitChars[i] = Head(v)) - 1),
                     Tail(v))

DateParse(v) ==
    IF v # <<>> /\ \A i \in 1..Len(v) : \E d \in 1..10 : DigitChars[d] = v[i]
    THEN Some(DigitsValue(0, v)) ELSE None

\* mutant: probe starts a metric at zero
InitialMetricZero(name) == IF name = "duration" THEN Some(0) ELSE None

\* probe: self.duration = None, self.last_try = None, self.last_success = None
InitialMetric(name) == None

\* mutant: the metric is overwritten by every record
SetAlways(old, value) == Some(value)

\* "if self.x is None: self.x = value"
SetOnce(old, value) == IF old = None THEN Some(value) ELSE old

\* truth value of a metric attribute: None and 0.0 are false
Truthy(m) == m # None /\ Val(m) # 0

\* "if self.duration and self.last_try and self.last_success"
HaveAll(d, t, s) == Truthy(d) /\ Truthy(t) /\ Truthy(s)

\* mutant: the status of the record is not looked at
IsSuccessAlways(parsed_backup) == TRUE

\* parsed_backup['status'].casefold() == "success"
IsSuccess(parsed_backup) == Casefold(parsed_backup[K_status]) = V_success

\* "except E_PathNotAccessible"
Caught(exc) == exc = "PathNotAccessible"

HasKey(d, k) == k \in DOMAIN d

\* the exception lines 135-137 raise on a parsed summary, "none" if none
TimestampError(parsed_backup) ==
    IF ~HasKey(parsed_backup, K_begin) THEN "KeyError"
    ELSE IF DateParse(parsed_backup[K_begin]) = None THEN "ParserError"
    ELSE IF ~HasKey(parsed_backup, K_complete) THEN "KeyError"
    ELSE IF DateParse(parsed_backup[K_complete]) = None THEN "ParserError"
    ELSE "none"

Begin(parsed_backup) == Val(DateParse(parsed_backup[K_begin]))
Complete(parsed_backup) == Val(DateParse(parsed_backup[K_complete]))

MaxNow == ClockStart + ClockSpan

Idle ==
    /\ seconds = 0 /\ string = <<>>
    /\ summary = <<>> /\ parameterL = <<>> /\ resultD = <<>>

Init ==
    /\ basePath \in PathStates
    /\ vaultPath \in PathStates
    /\ histAccess \in BOOLEAN
    /\ \E n \in 0..MaxHist : \E imgs \in [1..n -> Images] :
         /\ histfile = [i \in 1..n |-> HistLine(i)]
         /\ fs = [id \in {ImageName(i) : i \in 1..n} |->
                    imgs[CHOOSE i \in 1..n : ImageName(i) = id]]
    /\ pc = "init"
    /\ error = "none"
    /\ pending = <<>>
    /\ found = <<>>
    /\ duration = None /\ last_try = None /\ last_success = None
    /\ now = ClockStart
    /\ Idle

\* probe, up to the call of check_backups
Probe ==
    /\ pc = "init"
    /\ duration' = InitialMetric("duration")
    /\ last_try' = InitialMetric("last_try")
    /\ last_success' = InitialMetric("last_success")
    /\ pc' = "call"
    /\ UNCHANGED <<basePath, vaultPath, histAccess, histfile, fs, error,
                   pending, found, now, fmtVars, parseVars>>

\* the first next() on backups(): a path check raises
BackupsRaise ==
    /\ pc = "call"
    /\ BackupsCheck(basePath, vaultPath, histAccess) # "ok"
    /\ error' = BackupsCheck(basePath, vaultPath, histAccess)
    /\ pc' = "failed"
    /\ UNCHANGED <<basePath, vaultPath, histAccess, histfile, fs, pending,
                   found, duration, last_try, last_success, now, fmtVars,
                   parseVars>>

\* the first next() on backups(): the history file is read
BackupsOpen ==
    /\ pc = "call"
    /\ BackupsCheck(basePath, vaultPath, histAccess) = "ok"
    /\ pending' = Backups(histfile)
    /\ pc' = "loop"
    /\ UNCHANGED <<basePath, vaultPath, histAccess, histfile, fs, error,
                   found, duration, last_try, last_success, now, fmtVars,
                   parseVars>>

\* the generator is exhausted: the for loop ends
Exhausted ==
    /\ pc = "loop"
    /\ pending = <<>>
    /\ pc' = "done"
    /\ UNCHANGED <<basePath, vaultPath, histAccess, histfile, fs, error,
                   pending, found, duration, last_try, last_success, now,
                   fmtVars, parseVars>>

\* the generator yields the next identifier
Yield ==
    /\ pc = "loop"
    /\ pending # <<>>
    /\ found' = Append(found, Head(pending))
    /\ pending' = Tail(pending)

Parsed == parse_backup(fs[Head(pending)], Params)

\* parse_backup raises E_PathNotAccessible: continue
SkipBackup ==
    /\ Yield
    /\ Parsed.exc # "none"
    /\ Caught(Parsed.exc)
    /\ UNCHANGED <<basePath, vaultPath, histAccess, histfile, fs, pc, error,
                   duration, last_try, last_success, now, fmtVars, parseVars>>

\* parse_backup raises an exception the loop does not catch
ParseRaise ==
    /\ Yield
    /\ Parsed.exc # "none"
    /\ ~Caught(Parsed.exc)
    /\ error' = Parsed.exc
    /\ pc' = "failed"
    /\ UNCHANGED <<basePath, vaultPath, histAccess, histfile, fs, duration,
                   last_try, last_success, now, fmtVars, parseVars>>

\* lines 135-137 raise KeyError or ParserError
TimestampRaise ==
    /\ Yield
    /\ Parsed.exc = "none"
    /\ TimestampError(Parsed.result) # "none"
    /\ error' = TimestampError(Parsed.result)
    /\ pc' = "failed"
    /\ UNCHANGED <<basePath, vaultPath, histAccess, histfile, fs, duration,
                   last_try, last_success, now, fmtVars, parseVars>>

\* lines 139-147, then parsed_backup['status'] raises KeyError
StatusRaise ==
    /\ Yield
    /\ Parsed.exc = "none"
    /\ TimestampError(Parsed.result) = "none"
    /\ ~HasKey(Parsed.result, K_status)
    /\ \E t1 \in now..MaxNow :
         /\ duration' = SetOnce(duration, Complete(Parsed.result) - Begin(Parsed.result))
         /\ last_try' = SetOnce(last_try, t1 - Begin(Parsed.result))
         /\ now' = t1
    /\ error' = "KeyError"
    /\ pc' = "failed"
    /\ UNCHANGED <<basePath, vaultPath, histAccess, histfile, fs,
                   last_success, fmtVars, parseVars>>

\* lines 139-155: the record is gathered, and the loop breaks or goes on
Gather ==
    /\ Yield
    /\ Parsed.exc = "none"
    /\ TimestampError(Parsed.result) = "none"
    /\ HasKey(Parsed.result, K_status)
    /\ \E t1 \in now..MaxNow : \E t2 \in t1..MaxNow :
         /\ duration' = SetOnce(duration, Complete(Parsed.result) - Begin(Parsed.result))
         /\ last_try' = SetOnce(last_try, t1 - Begin(Parsed.result))
         /\ last_success' = IF IsSuccess(Parsed.result)
                            THEN SetOnce(last_success, t2 - Begin(Parsed.result))
                            ELSE last_success
         /\ now' = t2
    /\ pc' = IF HaveAll(duration', last_try', last_success') THEN "done" ELSE "loop"
    /\ UNCHANGED <<basePath, vaultPath, histAccess, histfile, fs, error,
                   fmtVars, parseVars>>

Next ==
    \/ Probe
    \/ BackupsRaise
    \/ BackupsOpen
    \/ Exhausted
    \/ SkipBackup
    \/ ParseRaise
    \/ TimestampRaise
    \/ StatusRaise
    \/ Gather

Spec == Init /\ [][Next]_vars

----------------------------------------------------------------------------
(* The pure functions, applied to bounded inputs *)

SeqsUpTo(alphabet, n) == UNION { [1..k -> alphabet] : k \in 0..n }

NoCheck ==
    /\ basePath = "dir" /\ vaultPath = "dir" /\ histAccess = TRUE
    /\ fs = <<>> /\ error = "none" /\ pending = <<>>
    /\ duration = None /\ last_try = None /\ last_success = None
    /\ now = ClockStart

\* list(self.backups()) on a vault whose paths are accessible
InitScan ==
    /\ histfile \in SeqsUpTo(SeqsUpTo({"a", "\t", " "}, MaxScanLen), MaxScanLines)
    /\ found = <<>>
    /\ pc = "init"
    /\ NoCheck
    /\ Idle

ScanAll ==
    /\ pc = "init"
    /\ BackupsCheck(basePath, vaultPath, histAccess) = "ok"
    /\ found' = Backups(histfile)
    /\ pc' = "done"
    /\ UNCHANGED <<histfile, checkVarsRest, fmtVars, parseVars>>

SpecScan == InitScan /\ [][ScanAll]_vars

\* parse_backup on an accessible image with a readable summary file
SecondLines == { <<"k", ":", " ", "k">>, <<"K", ":", " ", ":">> }

InitParse ==
    /\ \E first \in SeqsUpTo({"k", "K", ":", " "}, MaxSumLen) :
         summary \in {<<first>>} \cup { <<first, l>> : l \in SecondLines }
    /\ parameterL \in { << <<"k">> >>, << <<"K">>, <<":">> >> }
    /\ resultD = <<>>
    /\ pc = "init"
    /\ histfile = <<>> /\ found = <<>>
    /\ NoCheck
    /\ seconds = 0 /\ string = <<>>

ParseApply ==
    /\ pc = "init"
    /\ resultD' = parse_backup(Image("dir", "dir", TRUE, summary), parameterL).result
    /\ pc' = "done"
    /\ UNCHANGED <<histfile, found, checkVarsRest, fmtVars, summary, parameterL>>

SpecParse == InitParse /\ [][ParseApply]_vars

\* seconds_human_readable on a non-negative integer
InitFmt ==
    /\ seconds \in FmtInputs
    /\ string = <<>>
    /\ pc = "init"
    /\ histfile = <<>> /\ found = <<>>
    /\ NoCheck
    /\ summary = <<>> /\ parameterL = <<>> /\ resultD = <<>>

Format ==
    /\ pc = "init"
    /\ string' = seconds_human_readable(seconds)
    /\ pc' = "done"
    /\ UNCHANGED <<histfile, found, checkVarsRest, seconds, parseVars>>

SpecFmt == InitFmt /\ [][Format]_vars

----------------------------------------------------------------------------
(* Properties of check_backups, checked under Spec *)

\* the record of the i-th line of the history file (the newest is the last)
OutcomeAt(i) == parse_backup(fs[ImageName(i)], Params)
RecordAt(i) == OutcomeAt(i).result
ParsedLines == { i \in 1..Len(histfile) : OutcomeAt(i).exc = "none" }
SuccessLines ==
    { i \in ParsedLines :
        /\ K_status \in DOMAIN RecordAt(i)
        /\ RecordAt(i)[K_status] \in
             { V_success, <<"S","U","C","C","E","S","S">> } }
NewestOf(lines) == CHOOSE i \in lines : \A j \in lines : j <= i
ClockReadings == ClockStart..now

\* C1: last_try and duration are derived from the newest record whose
\* summary parses, whatever its status, and last_success from the begin time
\* of the newest parsed record whose status is "success" in any letter case;
\* when check_backups returns, each metric that has such a record is set.
C1_MetricsFromNewestRecords ==
    /\ last_try # None =>
         /\ ParsedLines # {}
         /\ TimestampError(RecordAt(NewestOf(ParsedLines))) = "none"
         /\ Val(last_try) + Begin(RecordAt(NewestOf(ParsedLines))) \in ClockReadings
    /\ duration # None =>
         /\ ParsedLines # {}
         /\ TimestampError(RecordAt(NewestOf(ParsedLines))) = "none"
         /\ Val(duration) = Complete(RecordAt(NewestOf(ParsedLines)))
                              - Begin(RecordAt(NewestOf(ParsedLines)))
    /\ last_success # None =>
         /\ SuccessLines # {}
         /\ TimestampError(RecordAt(NewestOf(SuccessLines))) = "none"
         /\ Val(last_success) + Begin(RecordAt(NewestOf(SuccessLines))) \in ClockReadings
    /\ pc = "done" =>
         /\ ParsedLines # {} => last_try # None /\ duration # None
         /\ SuccessLines # {} => last_success # None

\* the newest backup failed, the one before it succeeded, and both were read
C1_Witness ==
    /\ pc = "done"
    /\ Len(histfile) = 2 /\ Len(found) = 2
    /\ fs[ImageName(2)] = Image("dir", "dir", TRUE, Finished(<<"f","a","i","l">>, 3, 4))
    /\ fs[ImageName(1)] = Image("dir", "dir", TRUE, Finished(V_success, 1, 3))
    /\ duration = Some(1)
    /\ Val(last_try) + 3 \in ClockReadings
    /\ Val(last_success) + 1 \in ClockReadings

\* C2: once a metric has left the unset state its value never changes
\* again, whatever records follow in the history.
C2_AssignedAtMostOnce ==
    [][ /\ duration # None => duration' = duration
        /\ last_try # None => last_try' = last_try
        /\ last_success # None => last_success' = last_success ]_vars

\* the newest record set all three metrics (its duration is 0 seconds), and
\* an older record with other timestamps was gathered after it
C2_Witness ==
    /\ pc = "done"
    /\ Len(found) = 2
    /\ fs[ImageName(2)] =
         Image("dir", "dir", TRUE, Finished(<<"S","U","C","C","E","S","S">>, 2, 2))
    /\ fs[ImageName(1)] = Image("dir", "dir", TRUE, Finished(<<"f","a","i","l">>, 3, 4))
    /\ duration = Some(0)
    /\ Val(last_try) + 2 \in ClockReadings
    /\ Val(last_success) + 2 \in ClockReadings

\* C3: an accessibility error of either kind (PathNotAccessible, PathNoDir)
\* on the image directory or its tree does not abort check_backups: the
\* metrics stay as they are and the loop goes on with the next identifier.
C3_AccessErrorsSkipped ==
    [][ (/\ pc = "loop"
         /\ pending # <<>>
         /\ Parsed.exc \in {"PathNotAccessible", "PathNoDir"})
        => (/\ pc' = "loop"
            /\ pending' = Tail(pending)
            /\ <<duration, last_try, last_success>>' =
                 <<duration, last_try, last_success>>) ]_vars

\* the records the loop has been given so far
FoundOutcome(i) == parse_backup(fs[found[i]], Params)

\* C4: with an empty history file all three metrics stay unset, and a metric
\* holds a number only if a record the loop was given supplied that number;
\* an unset metric is never turned into zero.
C4_UnsetUnlessSupplied ==
    /\ histfile = <<>> =>
         duration = None /\ last_try = None /\ last_success = None
    /\ duration # None =>
         \E i \in 1..Len(found) :
            /\ FoundOutcome(i).exc = "none"
            /\ TimestampError(FoundOutcome(i).result) = "none"
            /\ Val(duration) = Complete(FoundOutcome(i).result)
                                 - Begin(FoundOutcome(i).result)
    /\ last_try # None =>
         \E i \in 1..Len(found) :
            /\ FoundOutcome(i).exc = "none"
            /\ TimestampError(FoundOutcome(i).result) = "none"
            /\ Val(last_try) + Begin(FoundOutcome(i).result) \in ClockReadings
    /\ last_success # None =>
         \E i \in 1..Len(found) :
            /\ FoundOutcome(i).exc = "none"
            /\ TimestampError(FoundOutcome(i).result) = "none"
            /\ K_status \in DOMAIN FoundOutcome(i).result
            /\ FoundOutcome(i).result[K_status] \in
                 { V_success, <<"S","U","C","C","E","S","S">> }
            /\ Val(last_success) + Begin(FoundOutcome(i).result) \in ClockReadings

\* check_backups has returned on an empty history file
C4_Witness ==
    /\ pc = "done"
    /\ histfile = <<>>
    /\ found = <<>>
    /\ duration = None /\ last_try = None /\ last_success = None

\* the first vault-level check that fails, in the order base path, vault
\* path, history file
VaultError ==
    IF basePath = "noaccess" THEN "PathNotAccessible"
    ELSE IF basePath = "file" THEN "PathNoDir"
    ELSE IF vaultPath = "noaccess" THEN "PathNotAccessible"
    ELSE IF vaultPath = "file" THEN "PathNoDir"
    ELSE IF ~histAccess THEN "HistoryFileNotFound"
    ELSE "none"

\* C5: a vault-level failure is fatal and comes before any record is
\* touched: the base path, the vault path and the history file are checked
\* in that order, the first failure is the error that leaves the check, no
\* identifier is yielded and all three metrics are still unset.
C5_VaultFailureFatal ==
    VaultError # "none" =>
        /\ pc \in {"init", "call", "failed"}
        /\ pc = "failed" => error = VaultError
        /\ found = <<>> /\ pending = <<>>
        /\ duration = None /\ last_try = None /\ last_success = None

\* all three vault-level checks would fail; the base path's error is raised
C5_Witness ==
    /\ pc = "failed"
    /\ basePath = "file" /\ vaultPath = "noaccess" /\ ~histAccess
    /\ error = "PathNoDir"

\* C9: check_backups stops consuming identifiers as soon as duration,
\* last_try and last_success are all set, a value of 0 seconds included: no
\* identifier older than the record that filled the last one is parsed.
C9_StopsWhenAllSet ==
    [][ (duration # None /\ last_try # None /\ last_success # None)
        => found' = found ]_vars

\* C10: a record whose summary file is unreadable (BackupNotValid), or whose
\* parsed mapping lacks backup-begin or backup-complete, is skipped: the
\* check does not abort, the metrics stay as they are and the loop goes on
\* with the next identifier.
C10_InvalidRecordsSkipped ==
    [][ (/\ pc = "loop"
         /\ pending # <<>>
         /\ \/ Parsed.exc = "BackupNotValid"
            \/ /\ Parsed.exc = "none"
               /\ \/ K_begin \notin DOMAIN Parsed.result
                  \/ K_complete \notin DOMAIN Parsed.result)
        => (/\ pc' = "loop"
            /\ pending' = Tail(pending)
            /\ <<duration, last_try, last_success>>' =
                 <<duration, last_try, last_success>>) ]_vars

----------------------------------------------------------------------------
(* Properties of backups(), checked under SpecScan *)

\* the part of a string before its first tab
BeforeTab(s) ==
    IF \E i \in 1..Len(s) : s[i] = "\t"
    THEN SubSeq(s, 1, (CHOOSE i \in 1..Len(s) :
                          s[i] = "\t" /\ \A j \in 1..(i - 1) : s[j] # "\t") - 1)
    ELSE s

NonEmptyLine(l) == l # <<>>

\* C6 as stated: one identifier per non-empty line and none for an empty
\* line, each the part of its line before the first tab, last line first.
C6_OneIdentifierPerNonEmptyLine ==
    pc = "done" =>
        LET lines == Reversed(SelectSeq(histfile, NonEmptyLine))
        IN found = [i \in 1..Len(lines) |-> BeforeTab(lines[i])]

\* C6 as amended: one identifier per line, empty lines included, each the
\* part before the first tab of its line with the white space at both ends
\* removed (the empty identifier for an empty or blank line), last line
\* first.
C6_OneIdentifierPerLine ==
    pc = "done" =>
        /\ Len(found) = Len(histfile)
        /\ \A i \in 1..Len(found) :
              found[i] = BeforeTab(Strip(histfile[Len(histfile) - i + 1]))

\* an empty line precedes a line that starts with white space
C6_Witness ==
    /\ pc = "done"
    /\ histfile = << <<>>, <<" ", "a">> >>
    /\ found = << <<"a">>, <<>> >>

----------------------------------------------------------------------------
(* Properties of parse_backup, checked under SpecParse *)

StrippedLine(l) == Strip(l)
HasSeparator(l) == FindSep(StrippedLine(l), ColonSpace) # 0
KeyOf(l) == Casefold(SubSeq(StrippedLine(l), 1, FindSep(StrippedLine(l), ColonSpace) - 1))
RestOf(l) ==
    SubSeq(StrippedLine(l), FindSep(StrippedLine(l), ColonSpace) + 2,
           Len(StrippedLine(l)))
Wanted == { Casefold(parameterL[i]) : i \in 1..Len(parameterL) }
WantedLines ==
    { i \in 1..Len(summary) : HasSeparator(summary[i]) /\ KeyOf(summary[i]) \in Wanted }

\* C7: the keys returned are exactly the lowercased keys that occur in the
\* summary file and, case-insensitively, in the requested fields; a line is
\* split at its first ": " only, so a value is the rest of its line with any
\* further ": " kept as written; a line without the separator is ignored.
C7_ValuesVerbatim ==
    pc = "done" =>
        /\ DOMAIN resultD = { KeyOf(summary[i]) : i \in WantedLines }
        /\ \A k \in DOMAIN resultD :
              resultD[k] = RestOf(summary[NewestOf(
                               { i \in WantedLines : KeyOf(summary[i]) = k })])

----------------------------------------------------------------------------
(* Properties of seconds_human_readable, checked under SpecFmt *)

UnitLetters == {"Y", "M", "d", "h"}

\* the components of a result: one per unit letter, and the minutes after "h"
Components(str) ==
    Cardinality({ i \in 1..Len(str) : str[i] \in UnitLetters })
      + (IF str # <<>> /\ str[Len(str)] \notin UnitLetters THEN 1 ELSE 0)

\* the larger units the claim lets a number of seconds show, in order
LargerUnits(secs) ==
    LET years == secs \div 31536000
        afterYears == IF years >= 1 THEN secs - years * 31536000 ELSE secs
        months == afterYears \div 2592000
        afterMonths == IF months > 2 THEN afterYears - months * 2592000
                       ELSE afterYears
        days == afterMonths \div 86400
        afterDays == IF days >= 1 THEN afterMonths - days * 86400 ELSE afterMonths
    IN [ units |-> (IF years >= 1 THEN << Dec(years) \o <<"Y">> >> ELSE <<>>)
                     \o (IF months > 2 THEN << Dec(months) \o <<"M">> >> ELSE <<>>)
                     \o (IF days >= 1 THEN << Dec(days) \o <<"d">> >> ELSE <<>>),
         rest |-> afterDays ]

HH(secs) == Pad2(secs \div 3600)
MM(secs) == Pad2((secs % 3600) \div 60)

====
